---------------------------- MODULE Spec2Model ----------------------------
(***************************************************************************)
(* State-machine model of src/src/main.cpp: a LoRaWAN node that queues a   *)
(* two-byte battery uplink (do_send), reacts to the MAC's events (onEvent) *)
(* and, on EV_TXCOMPLETE, powers down for TX_INTERVAL / 8 chunks of 8 s    *)
(* before arming sendjob for the remaining seconds.                        *)
(*                                                                         *)
(* The LMIC MAC, the LowPower sleep primitive and the ADC are outside the  *)
(* file; they appear as the environment: the MAC may start a               *)
(* transmit/receive cycle, report any event and let time pass.  MAC time   *)
(* is measured relative to the current instant (os_getTime is the origin,  *)
(* a passing second moves every deadline one second closer), in ticks.     *)
(***************************************************************************)
EXTENDS Integers, Sequences, FiniteSets

\* ------------------------------------------------------------ constants
TX_INTERVAL == 20
ChunkSeconds == 8
PayloadSize == 20
OSTICKS_PER_SEC == 62500
VccScale == 1125300
AdcMax == 1023

\* ------------------------------------------------------------ bounds
MaxTxComplete == 2
MaxInterval == 40
MaxDataLen == 1
MaxMilliVolt == 65600

U16Limit == 256 * 256

Events ==
  { "EV_SCAN_TIMEOUT", "EV_BEACON_FOUND", "EV_BEACON_MISSED",
    "EV_BEACON_TRACKED", "EV_JOINING", "EV_JOINED", "EV_RFU1",
    "EV_JOIN_FAILED", "EV_REJOIN_FAILED", "EV_TXCOMPLETE", "EV_LOST_TSYNC",
    "EV_RESET", "EV_RXCOMPLETE", "EV_LINK_DEAD", "EV_LINK_ALIVE",
    "EV_UNKNOWN" }

\* Events the MAC reports when a join cycle ends; a data cycle ends with
\* EV_TXCOMPLETE.
JoinEndEvents == { "EV_JOINED", "EV_JOIN_FAILED", "EV_REJOIN_FAILED" }

\* Raw ADC readings (ADCH:ADCL) the sampler may see.
RawReadings == { 0, 304 }

\* Results a division by a zero reading may leave in `result` (undefined
\* behaviour in C; the AVR has no division trap).
DivZeroOutcomes == { -1, 0 }

VARIABLES
  pc,               \* position of the single thread of control
  interval,         \* the configured TX_INTERVAL
  payload,          \* static uint8_t payload[20]
  times, rest,      \* int times, rest
  i,                \* loop counter of the EV_TXCOMPLETE sleep loop
  batteryLevel_mV,  \* do_send's local: the last sample
  adc,              \* the ADC result ADCH:ADCL of the last conversion
  txrx,             \* the MAC's transmit/receive cycle in flight:
                    \* "none", "join" or "data"
  txrxAck,          \* LMIC.txrxFlags & TXRX_ACK
  dataLen,          \* LMIC.dataLen
  pendTx,           \* the frame handed to LMIC_setTxData2 (copied by the MAC)
  linkCheck,        \* the MAC's link-check mode
  queue,            \* the MAC's scheduled jobs: {[job, deadline, func]}
  dispatch,         \* what the current/last step belongs to
  ev,               \* the event tag of the current/last onEvent call
  calls,            \* external calls made so far by the current dispatch
  nSubmit,          \* do_send invocations so far (saturating)
  nTxComplete,      \* EV_TXCOMPLETE events handled so far
  elapsed           \* wall-clock seconds since the last EV_TXCOMPLETE
                    \* handler began

vars == << pc, interval, payload, times, rest, i, batteryLevel_mV, adc, txrx,
           txrxAck, dataLen, pendTx, linkCheck, queue, dispatch, ev, calls,
           nSubmit, nTxComplete, elapsed >>

macFlags == << txrxAck, dataLen >>
counters == << nSubmit, nTxComplete >>

\* LMIC.opmode & OP_TXRXPEND
pending == txrx # "none"

Call(f, a) == [fn |-> f, arg |-> a]

NoTx == [port |-> 0, data |-> << >>, len |-> 0, confirmed |-> 0]

ZeroPayload == [k \in 0..(PayloadSize - 1) |-> 0]

Min(a, b) == IF a < b THEN a ELSE b

\* ------------------------------------------------------------ readVcc
\* result = 1125300L / ((high << 8) | low)
readVcc(r) == IF r = 0 THEN DivZeroOutcomes ELSE { VccScale \div r }

\* ------------------------------------------------------------ do_send
\* Faulty variant: the two bytes in the other order.
BuildPayload_LittleEndian(buf, mV) ==
  LET b0 == [buf EXCEPT ![0] = mV % 256]
      b1 == [b0 EXCEPT ![1] = (mV \div 256) % 256]
  IN  [buf |-> b1, i |-> 2]

\* Faulty variant: after the sample the cursor runs on through the buffer
\* and one byte past its end.
BuildPayload_Overrun(buf, mV) ==
  [buf |-> [k \in 0..PayloadSize |->
              IF k = 0 THEN (mV \div 256) % 256
              ELSE IF k = 1 THEN mV % 256
              ELSE 0],
   i |-> PayloadSize + 1]

\* payload[i++] = (mV >> 8) & 0xFF; payload[i++] = mV & 0xFF; with i from 0.
\* Returns the buffer and the cursor.
BuildPayload(buf, mV) ==
  LET b0 == [buf EXCEPT ![0] = (mV \div 256) % 256]
      b1 == [b0 EXCEPT ![1] = mV % 256]
  IN  [buf |-> b1, i |-> 2]

\* LMIC_setTxData2(port, data, dlen, confirmed): the MAC copies the frame.
LMIC_setTxData2(port, data, dlen, confirmed) ==
  [port |-> port, data |-> [k \in 1..dlen |-> data[k - 1]], len |-> dlen,
   confirmed |-> confirmed]

\* Faulty variant: the frame is queued before the sample is written to the
\* buffer.
SendBranch_EnqueuesFirst(mV, log) ==
  LET built == BuildPayload(payload, mV) IN
  /\ batteryLevel_mV' = mV
  /\ pendTx' = LMIC_setTxData2(1, payload, built.i, 0)
  /\ payload' = built.buf
  /\ txrx' \in { "none", "join", "data" }
  /\ calls' = log \o << Call("LMIC_setTxData2", built.i), Call("readVcc", 0) >>

\* The else branch of do_send once the battery has been sampled; the MAC
\* may start the cycle (a join when there is no session) at once or later
\* (duty cycle).
SendBranch(mV, log) ==
  LET built == BuildPayload(payload, mV) IN
  /\ batteryLevel_mV' = mV
  /\ payload' = built.buf
  /\ pendTx' = LMIC_setTxData2(1, built.buf, built.i, 0)
  /\ txrx' \in { "none", "join", "data" }
  /\ calls' = log \o << Call("readVcc", 0), Call("LMIC_setTxData2", built.i) >>

\* Faulty variant: no OP_TXRXPEND test.
do_send_Unguarded(log) ==
  /\ nSubmit' = Min(nSubmit + 1, MaxTxComplete + 2)
  /\ \E r \in RawReadings :
       /\ adc' = r
       /\ \E mV \in readVcc(r) : SendBranch(mV, log)

\* do_send(osjob_t *j); log holds the calls the dispatch made before it.
do_send(log) ==
  /\ nSubmit' = Min(nSubmit + 1, MaxTxComplete + 2)
  /\ IF pending
       THEN /\ calls' = log
            /\ UNCHANGED << batteryLevel_mV, adc, payload, pendTx, txrx >>
       ELSE \E r \in RawReadings :
              /\ adc' = r
              /\ \E mV \in readVcc(r) : SendBranch(mV, log)

\* ------------------------------------------------------------ setup
Init ==
  /\ pc = "setup_os_init"
  /\ interval = TX_INTERVAL
  /\ payload = ZeroPayload
  /\ times = 0
  /\ rest = 0
  /\ i = 0
  /\ batteryLevel_mV = 0
  /\ adc = 0
  /\ txrx = "none"
  /\ txrxAck = FALSE
  /\ dataLen = 0
  /\ pendTx = NoTx
  /\ linkCheck = TRUE
  /\ queue = {}
  /\ dispatch = "setup"
  /\ ev = "none"
  /\ calls = << >>
  /\ nSubmit = 0
  /\ nTxComplete = 0
  /\ elapsed = 0

setup_os_init ==
  /\ pc = "setup_os_init"
  /\ pc' = "setup_LMIC_reset"
  /\ calls' = Append(calls, Call("os_init", 0))
  /\ UNCHANGED << interval, payload, times, rest, i, batteryLevel_mV, adc, txrx,
                  macFlags, pendTx, linkCheck, queue, dispatch, ev, counters,
                  elapsed >>

\* Faulty variant: the reset is followed by LMIC_startJoining(), which
\* leaves a join cycle pending.
setup_LMIC_reset_StartsJoining ==
  /\ pc = "setup_LMIC_reset"
  /\ pc' = "setup_LMIC_setClockError"
  /\ txrx' = "join"
  /\ pendTx' = NoTx
  /\ linkCheck' = TRUE
  /\ txrxAck' = FALSE
  /\ dataLen' = 0
  /\ calls' = Append(calls, Call("LMIC_reset", 0))
  /\ UNCHANGED << interval, payload, times, rest, i, batteryLevel_mV, adc,
                  queue, dispatch, ev, counters, elapsed >>

\* "Session and pending data transfers will be discarded."
setup_LMIC_reset ==
  /\ pc = "setup_LMIC_reset"
  /\ pc' = "setup_LMIC_setClockError"
  /\ txrx' = "none"
  /\ pendTx' = NoTx
  /\ linkCheck' = TRUE
  /\ txrxAck' = FALSE
  /\ dataLen' = 0
  /\ calls' = Append(calls, Call("LMIC_reset", 0))
  /\ UNCHANGED << interval, payload, times, rest, i, batteryLevel_mV, adc,
                  queue, dispatch, ev, counters, elapsed >>

setup_LMIC_setClockError ==
  /\ pc = "setup_LMIC_setClockError"
  /\ pc' = "setup_do_send"
  /\ calls' = Append(calls, Call("LMIC_setClockError", 1))
  /\ UNCHANGED << interval, payload, times, rest, i, batteryLevel_mV, adc, txrx,
                  macFlags, pendTx, linkCheck, queue, dispatch, ev, counters,
                  elapsed >>

setup_do_send ==
  /\ pc = "setup_do_send"
  /\ pc' = "loop"
  /\ do_send(calls)
  /\ UNCHANGED << interval, times, rest, i, macFlags, linkCheck, queue,
                  dispatch, ev, nTxComplete, elapsed >>

\* ------------------------------------------------------------ the MAC's scheduler
os_getTime == 0

sec2osticks(sec) == sec * OSTICKS_PER_SEC

\* os_setTimedCallback(job, time, cb): the job is unlinked from the queue
\* it may be in, then queued with its new deadline.
os_setTimedCallback(q, job, time, cb) ==
  { j \in q : j.job # job } \cup { [job |-> job, deadline |-> time, func |-> cb] }

Due(j) == j.deadline - os_getTime <= 0

\* Faulty variant: the scheduler is also run between two chunk sleeps.
RunSendjob_Reentrant ==
  /\ pc \in { "loop", "sleep_loop" }
  /\ \E j \in queue :
       /\ Due(j)
       /\ j.func = "do_send"
       /\ queue' = queue \ { j }
  /\ dispatch' = "job"
  /\ ev' = "none"
  /\ do_send(<< >>)
  /\ UNCHANGED << pc, interval, times, rest, i, macFlags, linkCheck,
                  nTxComplete, elapsed >>

\* os_runloop_once finds sendjob due and calls do_send(&sendjob).
RunSendjob ==
  /\ pc = "loop"
  /\ \E j \in queue :
       /\ Due(j)
       /\ j.func = "do_send"
       /\ queue' = queue \ { j }
  /\ dispatch' = "job"
  /\ ev' = "none"
  /\ do_send(<< >>)
  /\ UNCHANGED << pc, interval, times, rest, i, macFlags, linkCheck,
                  nTxComplete, elapsed >>

\* ------------------------------------------------------------ onEvent
\* Faulty variant: the join also schedules a transmission.
OnJoined_Schedules ==
  /\ linkCheck' = FALSE
  /\ calls' = << Call("LMIC_setLinkCheckMode", 0),
                 Call("os_setTimedCallback", sec2osticks(0)) >>
  /\ queue' = os_setTimedCallback(queue, "sendjob",
                                  os_getTime + sec2osticks(0), "do_send")
  /\ UNCHANGED << pc, times, rest, i, elapsed >>

\* case EV_JOINED: LMIC_setLinkCheckMode(0);
OnJoined ==
  /\ linkCheck' = FALSE
  /\ calls' = << Call("LMIC_setLinkCheckMode", 0) >>
  /\ UNCHANGED << pc, times, rest, i, queue, elapsed >>

\* Faulty variant: rounds the number of chunks up.
Decompose_RoundUp(I) ==
  [times |-> (I + ChunkSeconds - 1) \div ChunkSeconds, rest |-> I % ChunkSeconds]

\* case EV_TXCOMPLETE, up to the sleep loop: times = TX_INTERVAL / 8;
\* rest = TX_INTERVAL % 8; int i = 0.  TXRX_ACK and LMIC.dataLen are only
\* printed.
Decompose(I) == [times |-> I \div ChunkSeconds, rest |-> I % ChunkSeconds]

\* Faulty variant: without an ack and without downlink data the handler breaks
\* before it schedules.
OnTxComplete_NeedsAck ==
  /\ calls' = << >>
  /\ UNCHANGED << linkCheck, queue >>
  /\ IF txrxAck' \/ dataLen' # 0
       THEN /\ times' = Decompose(interval).times
            /\ rest' = Decompose(interval).rest
            /\ i' = 0
            /\ pc' = "sleep_loop"
       ELSE UNCHANGED << pc, times, rest, i >>
  /\ elapsed' = 0

OnTxComplete ==
  /\ times' = Decompose(interval).times
  /\ rest' = Decompose(interval).rest
  /\ i' = 0
  /\ pc' = "sleep_loop"
  /\ calls' = << >>
  /\ elapsed' = 0
  /\ UNCHANGED << linkCheck, queue >>

\* Faulty variant: every other event tries again at once.
OnOther_Retry ==
  /\ calls' = << Call("os_setTimedCallback", sec2osticks(0)) >>
  /\ queue' = os_setTimedCallback(queue, "sendjob",
                                  os_getTime + sec2osticks(0), "do_send")
  /\ UNCHANGED << pc, times, rest, i, linkCheck, elapsed >>

\* every other case, and default: a print only.
OnOther ==
  /\ calls' = << >>
  /\ UNCHANGED << pc, times, rest, i, linkCheck, queue, elapsed >>

\* Faulty variant: a failed join is handled like a completed transmission.
onEvent_RetryOnJoinFail(e) ==
  /\ dispatch' = "event"
  /\ ev' = e
  /\ UNCHANGED << interval, payload, batteryLevel_mV, adc, pendTx, nSubmit >>
  /\ CASE e = "EV_JOINED" -> OnJoined
       [] e \in { "EV_TXCOMPLETE", "EV_JOIN_FAILED", "EV_REJOIN_FAILED" } ->
            OnTxComplete
       [] OTHER -> OnOther

onEvent(e) ==
  /\ dispatch' = "event"
  /\ ev' = e
  /\ UNCHANGED << interval, payload, batteryLevel_mV, adc, pendTx, nSubmit >>
  /\ CASE e = "EV_JOINED" -> OnJoined
       [] e = "EV_TXCOMPLETE" -> OnTxComplete
       [] OTHER -> OnOther

\* os_runloop_once runs a MAC job that reports event e.  An event that ends
\* a transmit/receive cycle finds OP_TXRXPEND set and clears it before the
\* callback; EV_TXCOMPLETE leaves the ack flag and the downlink length.
\* MaxTxComplete bounds the run.
MacReport(e) ==
  /\ pc = "loop"
  /\ CASE e = "EV_TXCOMPLETE" -> txrx = "data" /\ txrx' = "none"
       [] e \in JoinEndEvents -> txrx = "join" /\ txrx' = "none"
       [] OTHER -> UNCHANGED txrx
  /\ IF e = "EV_TXCOMPLETE"
       THEN /\ nTxComplete < MaxTxComplete
            /\ nTxComplete' = nTxComplete + 1
            /\ txrxAck' \in BOOLEAN
            /\ dataLen' \in 0..MaxDataLen
       ELSE UNCHANGED << nTxComplete, macFlags >>
  /\ onEvent(e)

\* for (int i = 0; i < times; i++) LowPower.powerDown(SLEEP_8S, ...);
\* The chunk takes ChunkSeconds of wall-clock time; the MAC's clock stands
\* still, so no deadline moves.
SleepChunk ==
  /\ pc = "sleep_loop"
  /\ i < times
  /\ i' = i + 1
  /\ calls' = Append(calls, Call("LowPower.powerDown", ChunkSeconds))
  /\ elapsed' = elapsed + ChunkSeconds
  /\ UNCHANGED << pc, interval, payload, times, rest, batteryLevel_mV, adc,
                  txrx, macFlags, pendTx, linkCheck, queue, dispatch, ev,
                  counters >>

\* Faulty variant: blocks for the remaining seconds before it arms the job.
ArmSendjob_SleepsRest ==
  /\ pc = "sleep_loop"
  /\ ~(i < times)
  /\ pc' = "loop"
  /\ queue' = os_setTimedCallback(queue, "sendjob",
                                  os_getTime + sec2osticks(rest), "do_send")
  /\ calls' = calls \o << Call("LowPower.powerDown", rest),
                          Call("os_setTimedCallback", sec2osticks(rest)) >>
  /\ UNCHANGED << interval, payload, times, rest, i, batteryLevel_mV, adc, txrx,
                  macFlags, pendTx, linkCheck, dispatch, ev, counters,
                  elapsed >>

\* Faulty variant: every other handler arms a second osjob_t.
ArmSendjob_SecondJob ==
  /\ pc = "sleep_loop"
  /\ ~(i < times)
  /\ pc' = "loop"
  /\ queue' = os_setTimedCallback(queue,
                  IF nTxComplete % 2 = 0 THEN "sendjob2" ELSE "sendjob",
                  os_getTime + sec2osticks(rest), "do_send")
  /\ calls' = Append(calls, Call("os_setTimedCallback", sec2osticks(rest)))
  /\ UNCHANGED << interval, payload, times, rest, i, batteryLevel_mV, adc, txrx,
                  macFlags, pendTx, linkCheck, dispatch, ev, counters,
                  elapsed >>

\* Faulty variant: the handler returns without arming the job.
ArmSendjob_Never ==
  /\ pc = "sleep_loop"
  /\ ~(i < times)
  /\ pc' = "loop"
  /\ UNCHANGED << interval, payload, times, rest, i, batteryLevel_mV, adc, txrx,
                  macFlags, pendTx, linkCheck, queue, dispatch, ev, calls,
                  counters, elapsed >>

\* Faulty variant: the job is armed at os_getTime(), without the remainder.
ArmSendjob_NoRest ==
  /\ pc = "sleep_loop"
  /\ ~(i < times)
  /\ pc' = "loop"
  /\ queue' = os_setTimedCallback(queue, "sendjob", os_getTime, "do_send")
  /\ calls' = Append(calls, Call("os_setTimedCallback", 0))
  /\ UNCHANGED << interval, payload, times, rest, i, batteryLevel_mV, adc, txrx,
                  macFlags, pendTx, linkCheck, dispatch, ev, counters,
                  elapsed >>

\* Faulty variant: the job is armed without do_send as its callback.
ArmSendjob_NoCallback ==
  /\ pc = "sleep_loop"
  /\ ~(i < times)
  /\ pc' = "loop"
  /\ queue' = os_setTimedCallback(queue, "sendjob",
                                  os_getTime + sec2osticks(rest), "none")
  /\ calls' = Append(calls, Call("os_setTimedCallback", sec2osticks(rest)))
  /\ UNCHANGED << interval, payload, times, rest, i, batteryLevel_mV, adc, txrx,
                  macFlags, pendTx, linkCheck, dispatch, ev, counters,
                  elapsed >>

\* os_setTimedCallback(&sendjob, os_getTime() + sec2osticks(rest), do_send);
ArmSendjob ==
  /\ pc = "sleep_loop"
  /\ ~(i < times)
  /\ pc' = "loop"
  /\ queue' = os_setTimedCallback(queue, "sendjob",
                                  os_getTime + sec2osticks(rest), "do_send")
  /\ calls' = Append(calls, Call("os_setTimedCallback", sec2osticks(rest)))
  /\ UNCHANGED << interval, payload, times, rest, i, batteryLevel_mV, adc, txrx,
                  macFlags, pendTx, linkCheck, dispatch, ev, counters,
                  elapsed >>

\* ------------------------------------------------------------ environment
\* The MAC starts a transmit/receive cycle (join request, queued uplink or
\* poll) from a job of its own.
MacStartTx ==
  /\ pc = "loop"
  /\ ~pending
  /\ txrx' \in { "join", "data" }
  /\ dispatch' = "mac"
  /\ ev' = "none"
  /\ calls' = << >>
  /\ UNCHANGED << pc, interval, payload, times, rest, i, batteryLevel_mV, adc,
                  macFlags, pendTx, linkCheck, queue, counters, elapsed >>

\* One second of MAC time, and of wall-clock time, passes between two
\* iterations of loop(); a due job is run first.
Tick ==
  /\ pc = "loop"
  /\ queue # {}
  /\ \A j \in queue : ~Due(j)
  /\ queue' = { [j EXCEPT !.deadline = @ - OSTICKS_PER_SEC] : j \in queue }
  /\ dispatch' = "tick"
  /\ ev' = "none"
  /\ calls' = << >>
  /\ elapsed' = elapsed + 1
  /\ UNCHANGED << pc, interval, payload, times, rest, i, batteryLevel_mV, adc,
                  txrx, macFlags, pendTx, linkCheck, counters >>

\* loop(): os_runloop_once() runs one runnable job, the MAC's or sendjob.
loop == RunSendjob \/ (\E e \in Events : MacReport(e)) \/ MacStartTx

Next ==
  \/ setup_os_init
  \/ setup_LMIC_reset
  \/ setup_LMIC_setClockError
  \/ setup_do_send
  \/ loop
  \/ SleepChunk
  \/ ArmSendjob
  \/ Tick

Spec == Init /\ [][Next]_vars

\* loop() runs forever, time passes, and the MAC ends every data cycle with
\* EV_TXCOMPLETE.
Fairness ==
  /\ WF_vars(setup_os_init)
  /\ WF_vars(setup_LMIC_reset)
  /\ WF_vars(setup_LMIC_setClockError)
  /\ WF_vars(setup_do_send)
  /\ WF_vars(RunSendjob)
  /\ WF_vars(SleepChunk)
  /\ WF_vars(ArmSendjob)
  /\ WF_vars(Tick)
  /\ WF_vars(MacReport("EV_TXCOMPLETE"))

SpecFair == Init /\ [][Next]_vars /\ Fairness

\* ------------------------------------------------------------ the decomposition alone
\* The EV_TXCOMPLETE handler for every interval up to MaxInterval: the MAC
\* has a data cycle in flight and reports its end.
InitDecomp ==
  /\ pc = "loop"
  /\ interval \in 0..MaxInterval
  /\ payload = ZeroPayload
  /\ times = 0
  /\ rest = 0
  /\ i = 0
  /\ batteryLevel_mV = 0
  /\ adc = 0
  /\ txrx = "data"
  /\ txrxAck = FALSE
  /\ dataLen = 0
  /\ pendTx = LMIC_setTxData2(1, ZeroPayload, 2, 0)
  /\ linkCheck = FALSE
  /\ queue = {}
  /\ dispatch = "mac"
  /\ ev = "none"
  /\ calls = << >>
  /\ nSubmit = 1
  /\ nTxComplete = 0
  /\ elapsed = 0

NextDecomp == MacReport("EV_TXCOMPLETE") \/ SleepChunk \/ ArmSendjob

SpecDecomp == InitDecomp /\ [][NextDecomp]_vars

\* ------------------------------------------------------------ the payload alone
\* do_send's else branch for every sample up to MaxMilliVolt, over a
\* buffer that holds an earlier sample.
PriorBytes == { 0, 255 }

InitPayload ==
  /\ pc = "do_send_sampled"
  /\ interval = TX_INTERVAL
  /\ \E b \in PriorBytes :
       payload = [k \in 0..(PayloadSize - 1) |-> IF k < 2 THEN b ELSE 0]
  /\ times = 0
  /\ rest = 0
  /\ i = 0
  /\ batteryLevel_mV \in 0..MaxMilliVolt
  /\ adc = 0
  /\ txrx = "none"
  /\ txrxAck = FALSE
  /\ dataLen = 0
  /\ pendTx = NoTx
  /\ linkCheck = TRUE
  /\ queue = {}
  /\ dispatch = "job"
  /\ ev = "none"
  /\ calls = << >>
  /\ nSubmit = 1
  /\ nTxComplete = 0
  /\ elapsed = 0

SendSampled ==
  /\ pc = "do_send_sampled"
  /\ pc' = "loop"
  /\ SendBranch(batteryLevel_mV, << >>)
  /\ UNCHANGED << interval, times, rest, i, adc, macFlags, linkCheck, queue,
                  dispatch, ev, counters, elapsed >>

SpecPayload == InitPayload /\ [][SendSampled]_vars

\* ------------------------------------------------------------ the sampler alone
\* do_send's else branch for every result the 10-bit converter can leave in
\* ADCH:ADCL: readVcc, then the payload and the frame.
InitVcc ==
  /\ pc = "readVcc"
  /\ interval = TX_INTERVAL
  /\ payload = ZeroPayload
  /\ times = 0
  /\ rest = 0
  /\ i = 0
  /\ batteryLevel_mV = 0
  /\ adc \in 0..AdcMax
  /\ txrx = "none"
  /\ txrxAck = FALSE
  /\ dataLen = 0
  /\ pendTx = NoTx
  /\ linkCheck = TRUE
  /\ queue = {}
  /\ dispatch = "job"
  /\ ev = "none"
  /\ calls = << >>
  /\ nSubmit = 1
  /\ nTxComplete = 0
  /\ elapsed = 0

\* long batteryLevel_mV = readVcc();
ReadVcc ==
  /\ pc = "readVcc"
  /\ pc' = "do_send_sampled"
  /\ batteryLevel_mV' \in readVcc(adc)
  /\ UNCHANGED << interval, payload, times, rest, i, adc, txrx, macFlags,
                  pendTx, linkCheck, queue, dispatch, ev, calls, counters,
                  elapsed >>

NextVcc == ReadVcc \/ SendSampled

SpecVcc == InitVcc /\ [][NextVcc]_vars

\* ------------------------------------------------------------ observations
\* This step is an invocation of do_send.
DoSendStep == nSubmit' = nSubmit + 1

\* The last step was a do_send from sendjob that found OP_TXRXPEND set.
Skipped == dispatch = "job" /\ calls = << >> /\ pending

\* The EV_TXCOMPLETE handler has just returned.
HandlerDone == dispatch = "event" /\ ev = "EV_TXCOMPLETE" /\ pc = "loop"

\* The seconds of the blocking sleeps in a call log, in order.
RECURSIVE SleepsOf(_)
SleepsOf(log) ==
  IF log = << >> THEN << >>
  ELSE IF Head(log).fn = "LowPower.powerDown"
         THEN << Head(log).arg >> \o SleepsOf(Tail(log))
         ELSE SleepsOf(Tail(log))

Fns(log) == { log[k].fn : k \in 1..Len(log) }

\* ------------------------------------------------------------ claims
\* C1: do_send called while OP_TXRXPEND is set is a strict no-op: the
\* battery sampler is not invoked, no payload byte changes and
\* LMIC_setTxData2 is not called; so no step that calls LMIC_setTxData2
\* starts with OP_TXRXPEND set.
C1_PendingSendIsNoOp ==
  [][ /\ (DoSendStep /\ pending) =>
          /\ payload' = payload
          /\ pendTx' = pendTx
          /\ batteryLevel_mV' = batteryLevel_mV
          /\ txrx' = txrx
          /\ Fns(calls') \cap { "readVcc", "LMIC_setTxData2" } = {}
      /\ (DoSendStep /\ "LMIC_setTxData2" \in Fns(calls')) => ~pending
    ]_vars

C1_Witness == Skipped /\ nTxComplete >= 1 /\ pendTx # NoTx

\* C2 as first stated, for the configured interval: the handler sleeps
\* `times` chunks of 8 s and then blocks for `rest` seconds more (8, 8, 4
\* for 20 s) before it arms sendjob.
C2_SleepsRemainder ==
  (HandlerDone /\ interval = TX_INTERVAL) =>
    /\ SleepsOf(calls) = [k \in 1..times |-> ChunkSeconds]
                          \o (IF rest = 0 THEN << >> ELSE << rest >>)
    /\ SleepsOf(calls) = << ChunkSeconds, ChunkSeconds, 4 >>

\* C2 as amended: the handler sleeps exactly `times` chunks of 8 s (two for
\* 20 s) and nothing else; the remaining `rest` seconds (4) are not slept
\* but are the offset from os_getTime() at which it then arms sendjob, its
\* last call: chunk sleeps and offset add up to the interval.
C2_ChunksThenArm ==
  HandlerDone =>
    /\ SleepsOf(calls) = [k \in 1..times |-> ChunkSeconds]
    /\ Len(calls) = times + 1
    /\ calls[Len(calls)] = Call("os_setTimedCallback", rest * OSTICKS_PER_SEC)
    /\ [job |-> "sendjob", deadline |-> rest * OSTICKS_PER_SEC,
        func |-> "do_send"] \in queue
    /\ Len(SleepsOf(calls)) * ChunkSeconds + rest = interval
    /\ interval = TX_INTERVAL =>
         /\ SleepsOf(calls) = << ChunkSeconds, ChunkSeconds >>
         /\ rest = 4

C2_Witness ==
  /\ HandlerDone
  /\ interval = TX_INTERVAL
  /\ SleepsOf(calls) = << ChunkSeconds, ChunkSeconds >>
  /\ \E j \in queue : j.deadline = 4 * OSTICKS_PER_SEC

\* C3: for every interval I the values computed on EV_TXCOMPLETE are the
\* quotient and remainder of I by 8: 0 <= rest < 8, times >= 0 and
\* times * 8 + rest = I; 2 and 4 for TX_INTERVAL = 20.
C3_Decomposition ==
  (dispatch = "event" /\ ev = "EV_TXCOMPLETE") =>
    /\ times >= 0
    /\ 0 <= rest /\ rest < ChunkSeconds
    /\ times * ChunkSeconds + rest = interval
    /\ interval = TX_INTERVAL => (times = 2 /\ rest = 4)

C3_Witness ==
  /\ dispatch = "event" /\ ev = "EV_TXCOMPLETE"
  /\ interval = TX_INTERVAL /\ times = 2 /\ rest = 4

\* C4: handling EV_TXCOMPLETE always ends by arming sendjob, and TXRX_ACK
\* and LMIC.dataLen change nothing: whatever their values the event enters
\* the sleep loop, and the handler returns after TX_INTERVAL / 8 chunk
\* sleeps with sendjob armed for do_send at TX_INTERVAL % 8 seconds.
C4_AckAndDataIrrelevant ==
  /\ [] (HandlerDone =>
           /\ Len(SleepsOf(calls)) = TX_INTERVAL \div ChunkSeconds
           /\ queue = { [job |-> "sendjob", func |-> "do_send",
                          deadline |-> sec2osticks(TX_INTERVAL % ChunkSeconds)] })
  /\ [][ nTxComplete' # nTxComplete =>
            /\ pc' = "sleep_loop"
            /\ times' = TX_INTERVAL \div ChunkSeconds
            /\ rest' = TX_INTERVAL % ChunkSeconds
            /\ i' = 0 ]_vars

C4_Witness == HandlerDone /\ ~txrxAck /\ dataLen = 0 /\ queue # {}

\* What onEvent itself can reach: everything but the MAC's own cycle state,
\* its flags and the counters of the EV_TXCOMPLETE events.
JoinedFrame ==
  << pc, interval, payload, times, rest, i, batteryLevel_mV, pendTx, queue,
     nSubmit >>

\* C5: a Joined event turns link check off with exactly one
\* LMIC_setLinkCheckMode(0) call and does nothing else: no sleep, no job
\* armed, no do_send, no LMIC_setTxData2, times, rest and payload unchanged.
C5_JoinedOnlyDisablesLinkCheck ==
  [][ (dispatch' = "event" /\ ev' = "EV_JOINED") =>
        /\ calls' = << Call("LMIC_setLinkCheckMode", 0) >>
        /\ linkCheck' = FALSE
        /\ UNCHANGED JoinedFrame ]_vars

C5_Witness ==
  dispatch = "event" /\ ev = "EV_JOINED" /\ ~linkCheck /\ queue # {}

\* C6: an event other than Joined and Transmit-Complete, the unknown tag
\* included, changes nothing and calls nothing, each time it is handled.
C6_OtherEventsChangeNothing ==
  [][ (dispatch' = "event" /\ ev' \in Events \ { "EV_JOINED", "EV_TXCOMPLETE" }) =>
        /\ calls' = << >>
        /\ UNCHANGED << JoinedFrame, linkCheck, macFlags, nTxComplete >> ]_vars

C6_Witness ==
  dispatch = "event" /\ ev = "EV_UNKNOWN" /\ queue # {} /\ pending

\* C7: for a sample in 0..65535 the two payload bytes are its big-endian
\* encoding (3700 gives 0x0E, 0x74), whatever the buffer held before; the
\* MAC gets length 2 and these two bytes; bytes 2..19 are not written.
C7_PayloadBigEndian ==
  /\ [] ((pc = "loop" /\ batteryLevel_mV < U16Limit) =>
           /\ payload[0] \in 0..255 /\ payload[1] \in 0..255
           /\ payload[0] * 256 + payload[1] = batteryLevel_mV
           /\ batteryLevel_mV = 3700 => (payload[0] = 14 /\ payload[1] = 116)
           /\ pendTx.len = 2
           /\ pendTx.data = << payload[0], payload[1] >>)
  /\ [][ \A k \in 2..(PayloadSize - 1) : payload'[k] = payload[k] ]_vars

C7_Witness ==
  /\ pc = "loop" /\ batteryLevel_mV = 3700
  /\ payload[0] = 14 /\ payload[1] = 116 /\ pendTx.len = 2

\* C8: only Transmit-Complete drives scheduling: a job is armed by the
\* EV_TXCOMPLETE handler and by nothing else, do_send runs only from setup
\* or from a due job, and do_send has run at most once more than
\* EV_TXCOMPLETE was handled.
C8_OnlyTxCompleteSchedules ==
  /\ [] (nSubmit <= 1 + nTxComplete)
  /\ [] (HandlerDone => \E j \in queue : j.func = "do_send")
  /\ [][ /\ ("os_setTimedCallback" \in Fns(calls') /\ calls' # calls) =>
             (dispatch' = "event" /\ ev' = "EV_TXCOMPLETE")
         /\ (queue' # queue /\ dispatch' # "tick" /\ dispatch' # "job") =>
             (dispatch' = "event" /\ ev' = "EV_TXCOMPLETE")
         /\ nSubmit' # nSubmit =>
             \/ pc = "setup_do_send"
             \/ \E j \in queue : Due(j) /\ j.func = "do_send" /\ j \notin queue'
       ]_vars

C8_Witness == nTxComplete = 2 /\ nSubmit = 3 /\ ev = "EV_REJOIN_FAILED"

\* C9: at most one send job is live, and a handled EV_TXCOMPLETE leaves
\* exactly one, armed by one os_setTimedCallback call, also when the job of
\* the handler before has not fired.
C9_OneLiveJob ==
  /\ Cardinality(queue) <= 1
  /\ HandlerDone =>
       /\ Cardinality(queue) = 1
       /\ Cardinality({ k \in 1..Len(calls) : calls[k].fn = "os_setTimedCallback" }) = 1

C9_Witness ==
  HandlerDone /\ nTxComplete = 2 /\ nSubmit = 1 /\ Cardinality(queue) = 1

\* C10: a do_send skipped in a data cycle arms nothing itself; the cycle's
\* EV_TXCOMPLETE is then handled (up to MaxTxComplete events), and after
\* that handler sendjob fires and do_send runs again.
C10_SkippedAttemptRetried ==
  /\ (Skipped /\ txrx = "data" /\ nTxComplete < MaxTxComplete) ~> HandlerDone
  /\ HandlerDone ~> (dispatch = "job")
  /\ [] (Skipped => queue = {})

C10_Witness ==
  Skipped /\ txrx = "data" /\ queue = {} /\ nTxComplete < MaxTxComplete

\* C11: under fairness of loop(), every handled EV_TXCOMPLETE is followed
\* by a do_send from the armed sendjob; the handler always returns to
\* loop(); and while the MAC ends the data cycle in flight with
\* EV_TXCOMPLETE (up to MaxTxComplete events) the n-th do_send is followed
\* by another one.
C11_CycleContinues ==
  /\ (pc = "sleep_loop") ~> (dispatch = "job" /\ elapsed >= TX_INTERVAL)
  /\ []<>(pc = "loop")
  /\ \A n \in 1..MaxTxComplete :
       (nSubmit = n /\ txrx = "data" /\ nTxComplete < MaxTxComplete)
         ~> (nSubmit > n)

C11_Witness ==
  /\ dispatch = "job"
  /\ nSubmit = MaxTxComplete + 1
  /\ nTxComplete = MaxTxComplete
  /\ "LMIC_setTxData2" \in Fns(calls)

\* The calls of setup(), in order, with its one do_send that queues an
\* uplink of 2 bytes.
SetupCalls ==
  << Call("os_init", 0), Call("LMIC_reset", 0), Call("LMIC_setClockError", 1),
     Call("readVcc", 0), Call("LMIC_setTxData2", 2) >>

\* C12: setup() calls os_init, LMIC_reset, LMIC_setClockError and then
\* do_send exactly once, in this order, before the first step of loop() and
\* before any event is handled; that first do_send finds no cycle pending
\* and queues an uplink.
C12_StartupOrder ==
  /\ pc \notin { "loop", "sleep_loop" } =>
       /\ dispatch = "setup" /\ ev = "none" /\ queue = {}
       /\ nSubmit = 0 /\ nTxComplete = 0 /\ pendTx = NoTx
       /\ Len(calls) <= 3
       /\ calls = SubSeq(SetupCalls, 1, Len(calls))
  /\ pc \in { "loop", "sleep_loop" } => nSubmit >= 1
  /\ (pc = "loop" /\ dispatch = "setup") =>
       /\ calls = SetupCalls
       /\ nSubmit = 1 /\ nTxComplete = 0
       /\ pendTx # NoTx

C12_Witness ==
  pc = "loop" /\ dispatch = "setup" /\ calls = SetupCalls /\ txrx = "none"

\* C13: the MAC's clock stands still during the chunk sleeps, so when the
\* EV_TXCOMPLETE handler returns times * 8 seconds of wall-clock time have
\* passed and sendjob is armed rest seconds ahead, with
\* times * 8 + rest = TX_INTERVAL; a do_send run from sendjob never starts
\* less than TX_INTERVAL seconds after the start of the last handler.
C13_IntervalLowerBound ==
  /\ [] (HandlerDone =>
           /\ elapsed = times * ChunkSeconds
           /\ times * ChunkSeconds + rest = TX_INTERVAL
           /\ \A j \in queue : j.deadline = os_getTime + sec2osticks(rest))
  /\ [][ (DoSendStep /\ pc = "loop") => elapsed >= TX_INTERVAL ]_vars
  /\ [] (dispatch = "job" => elapsed >= TX_INTERVAL)

C13_Witness ==
  /\ dispatch = "job"
  /\ elapsed = TX_INTERVAL
  /\ nTxComplete = 2
  /\ nSubmit = 2

\* C14: a do_send that finds OP_TXRXPEND clear calls readVcc once, writes
\* the sample to payload[0..1] and then calls LMIC_setTxData2 once, with
\* port 1, the bytes just written, length 2 and confirmed = 0; every queued
\* frame has port 1, length 2 and is unconfirmed.
C14_SampleWriteEnqueue ==
  /\ [][ (DoSendStep /\ ~pending) =>
           /\ calls' = (IF pc = "setup_do_send" THEN calls ELSE << >>)
                         \o << Call("readVcc", 0), Call("LMIC_setTxData2", 2) >>
           /\ batteryLevel_mV' \in readVcc(adc')
           /\ payload'[0] = (batteryLevel_mV' \div 256) % 256
           /\ payload'[1] = batteryLevel_mV' % 256
           /\ pendTx' = [port |-> 1, data |-> << payload'[0], payload'[1] >>,
                         len |-> 2, confirmed |-> 0]
       ]_vars
  /\ [] (pendTx # NoTx =>
           pendTx.port = 1 /\ pendTx.len = 2 /\ pendTx.confirmed = 0)

C14_Witness ==
  /\ dispatch = "job"
  /\ calls = << Call("readVcc", 0), Call("LMIC_setTxData2", 2) >>
  /\ adc > 0
  /\ batteryLevel_mV = VccScale \div adc
  /\ pendTx.data = << payload[0], payload[1] >>
  /\ nSubmit = 3

\* C15: from the start of the EV_TXCOMPLETE handler to its return nothing
\* else runs: no other event is handled, no job fires (a due job stays
\* queued until the handler re-arms it) and do_send does not run; do_send
\* runs only from setup() or from a step of loop().
C15_HandlerRunsAlone ==
  /\ [] (pc = "sleep_loop" => dispatch = "event" /\ ev = "EV_TXCOMPLETE")
  /\ [][ pc = "sleep_loop" =>
           /\ UNCHANGED << dispatch, ev, nSubmit, nTxComplete, payload, pendTx,
                           batteryLevel_mV, txrx, macFlags, linkCheck >>
           /\ \/ pc' = "sleep_loop" /\ queue' = queue /\ i' = i + 1
              \/ pc' = "loop" /\ i = times
       ]_vars
  /\ [][ DoSendStep => pc \in { "setup_do_send", "loop" } ]_vars

C15_Witness ==
  /\ pc = "sleep_loop"
  /\ i = 1
  /\ \E j \in queue : Due(j) /\ j.func = "do_send"

\* C16: every write to payload is at an index below 20, that is below the
\* cursor do_send passes as the length, and the length passed to
\* LMIC_setTxData2 never exceeds 20: the buffer keeps its 20 bytes, a
\* do_send changes no byte at or beyond the length it passes, and every
\* length passed is at most 20.
C16_PayloadInBounds ==
  /\ [] (DOMAIN payload = 0..(PayloadSize - 1))
  /\ [] (pendTx.len <= PayloadSize)
  /\ [] (\A k \in 1..Len(calls) :
           calls[k].fn = "LMIC_setTxData2" => calls[k].arg <= PayloadSize)
  /\ [][ payload' # payload =>
           /\ DoSendStep
           /\ \A k \in DOMAIN payload' :
                k >= pendTx'.len => (k \in DOMAIN payload /\ payload'[k] = payload[k])
       ]_vars

C16_Witness ==
  /\ pendTx.len = 2
  /\ payload[0] # 0
  /\ payload[1] # 0
  /\ nSubmit = 2

\* The two payload bytes read back as a big-endian number.
Decoded == payload[0] * 256 + payload[1]

\* C17: for every reading r in 0..1023 readVcc returns the integer
\* 1125300 div r, that is the one q with q * r <= 1125300 < (q + 1) * r.
C17_DefinedForEveryReading ==
  pc # "readVcc" =>
    /\ batteryLevel_mV * adc <= VccScale
    /\ VccScale < (batteryLevel_mV + 1) * adc

\* C18: for every reading r in 1..1023, the two payload bytes do_send has
\* written decode to the value readVcc returned, 1125300 div r.
C18_RoundTrip ==
  (pc = "loop" /\ adc >= 1) =>
    /\ batteryLevel_mV = VccScale \div adc
    /\ Decoded = batteryLevel_mV

=============================================================================
